---- MODULE Spec2Model ----
(***************************************************************************)
(* The reconcile engine of the EphemeralAccelerationJob operator           *)
(* (src/src/operator): one job resource, the pod and the volume claim      *)
(* derived from it, the two kopf entry points that run reconcile_gpujob,   *)
(* and the cluster around them (kubelet, users, an API that may fail).     *)
(***************************************************************************)
EXTENDS Integers, Sequences, FiniteSets, TLC

\* ------------------------------------------------------------------ bounds
\* The clock runs from 0 to MaxTime (abstract seconds).
MaxTime == 1
\* At most MaxFaults API calls of one invocation fail or lose a race.
MaxFaults == 1
\* A returned status patch may be rejected by the API server as long as the
\* reconciler has deleted the pod fewer than MaxPodDeletes times.
MaxPodDeletes == 1

\* ------------------------------------------------------- crd.py constants
PHASE_PENDING == "Pending"
PHASE_RUNNING == "Running"
PHASE_SUCCEEDED == "Succeeded"
PHASE_FAILED == "Failed"
\* A bug that lets one more model through the validation.
AllowedWithLlama == {"resnet50", "mobilenet_v3_small", "llama"}

ALLOWED_MODELS == {"resnet50", "mobilenet_v3_small"}

\* spec.get("pvcTTLSecondsAfterFinished", 3600)
DefaultPvcTTL == 3600
\* spec.get("ttlSecondsAfterFinished", 0)
DefaultPodTTL == 0
\* logs[-500:]
LogTailChars == 500

Terminal == {PHASE_SUCCEEDED, PHASE_FAILED}

\* ------------------------------------------------------------ dictionaries
\* A Python dict is a function from its keys; {} is the empty function.
EmptyDict == [k \in {} |-> ""]

\* d.get(k, default)
Get(d, k, default) == IF k \in DOMAIN d THEN d[k] ELSE default

\* The status patch the framework merges into .status (top-level keys).
Merge(d, patch) ==
  [k \in (DOMAIN d) \cup (DOMAIN patch) |->
     IF k \in DOMAIN patch THEN patch[k] ELSE d[k]]

\* `if result:` — None and {} are both falsy: no patch is written.
NoPatch == EmptyDict

\* ------------------------------------------------------------- timestamps
\* datetime.utcnow().isoformat() + "Z": the naive UTC wall time followed by
\* the zone designator "Z".
IsoZ(t) == [wall |-> t, zone |-> "Z"]

\* The zone designators datetime.fromisoformat accepts after the wall time,
\* with their offsets in clock units; "" is a naive timestamp.
ZoneOffset == [z \in {"", "+00:00", "+00:01", "-00:01"} |->
                 CASE z = "+00:01" -> 1
                   [] z = "-00:01" -> 0 - 1
                   [] OTHER -> 0]

\* A bug that hands the text to the parser with its "Z".
ReplaceZNothing(ts) == ts

\* finished_at.replace("Z", "+00:00")
ReplaceZ(ts) == [ts EXCEPT !.zone = IF @ = "Z" THEN "+00:00" ELSE @]

\* datetime.fromisoformat raises ValueError on any other text.
Parsable(ts) == ReplaceZ(ts).zone \in DOMAIN ZoneOffset

\* A bug that subtracts the offset of a zone-aware value twice.
FinishedTimeTwice(ts) ==
  LET p == ReplaceZ(ts) IN
  IF p.zone # "" THEN (p.wall - ZoneOffset[p.zone]) - ZoneOffset[p.zone]
  ELSE p.wall

\* Lines 252-255: parse, and when the value is zone-aware subtract its
\* utcoffset and drop the zone; the result is a naive wall time.
FinishedTime(ts) ==
  LET p == ReplaceZ(ts) IN
  IF p.zone # "" THEN p.wall - ZoneOffset[p.zone] ELSE p.wall

\* ------------------------------------------------------------------ names
pvc_name_of(name) == "artifacts-" \o name
\* A bug that names the pod after the resource's short name.
pod_name_short(name) == "gpujob-" \o name

pod_name_of(name) == "ephemeralaccelerationjob-" \o name

\* ------------------------------------------------------------- templates
\* A bug that copies blockOwnerDeletion from the pod's owner reference.
owner_refs_blocking(name, uid) ==
  IF uid # ""
  THEN << [apiVersion |-> "gpu.yourdomain.io/v1alpha1",
           kind |-> "EphemeralAccelerationJob",
           name |-> name, uid |-> uid,
           controller |-> TRUE, blockOwnerDeletion |-> TRUE] >>
  ELSE << >>

\* V1OwnerReference built in reconcile_gpujob when uid is truthy.
owner_refs_of(name, uid) ==
  IF uid # ""
  THEN << [apiVersion |-> "gpu.yourdomain.io/v1alpha1",
           kind |-> "EphemeralAccelerationJob",
           name |-> name, uid |-> uid,
           controller |-> TRUE, blockOwnerDeletion |-> FALSE] >>
  ELSE << >>

create_pvc_manifest(pvc_name, storage_class, size, owner_refs) ==
  [name |-> pvc_name, owners |-> owner_refs,
   storageClass |-> storage_class, size |-> size]

\* A bug that leaves the owner reference out of the pod.
pod_manifest_without_owner(pod_name, job_name, uid, model, pvc_name) ==
  [name |-> pod_name, label |-> job_name, owners |-> << >>,
   model |-> model, claim |-> pvc_name, phase |-> "Pending", logs |-> << >>]

\* The pod as the API server stores it after create: the manifest plus the
\* server-side status (phase Pending, no logs yet).
create_pod_manifest(pod_name, job_name, uid, model, pvc_name) ==
  [name |-> pod_name,
   label |-> job_name,
   owners |-> << [apiVersion |-> "gpu.yourdomain.io/v1alpha1",
                  kind |-> "EphemeralAccelerationJob",
                  name |-> job_name, uid |-> uid,
                  controller |-> TRUE, blockOwnerDeletion |-> TRUE] >>,
   model |-> model,
   claim |-> pvc_name,
   phase |-> "Pending",
   logs |-> << >>]

\* ------------------------------------------------------------ cluster API
\* The cluster seen by one invocation: the pods and claims of the namespace,
\* the API calls issued so far and the exception that ended it ("" = none).
Find(objs, n) == {x \in objs : x.name = n}
Has(objs, n) == Find(objs, n) # {}
TheObj(objs, n) == CHOOSE x \in Find(objs, n) : TRUE
Without(objs, n) == objs \ Find(objs, n)

Call(verb, kind, n, res) == [verb |-> verb, kind |-> kind, name |-> n, res |-> res]
Log(w, verb, kind, n, res) == [w EXCEPT !.calls = Append(@, Call(verb, kind, n, res))]
\* A bug that logs an exception and goes on instead of raising it.
LogInsteadOfRaise(w, exc) == w

Raise(w, exc) == [w EXCEPT !.raised = exc]

\* Outcome of a read: answered from the cluster, or a non-404 API error.
ReadOutcomes == {"ok", "error"}
\* Outcome of a write: applied, a non-404 API error, or a race with another
\* client (create: the object appeared -> 409; delete, patch: it vanished -> 404).
WriteOutcomes == {"ok", "error", "race"}

\* The answer of a delete call on objs: "ok", "notfound" (404) or "error".
DeleteResult(objs, n, wr) ==
  IF wr = "error" THEN "error"
  ELSE IF wr = "race" \/ ~Has(objs, n) THEN "notfound"
  ELSE "ok"

\* The collection after a delete call (grace period 0: gone at once).
DeleteFrom(objs, n, wr) == IF wr = "error" THEN objs ELSE Without(objs, n)

\* ------------------------------------------------------------ k8s.py
\* A bug that takes a pod that is gone for one that has completed.
get_pod_status_gone_is_succeeded(w, pod_name, rd) ==
  IF rd = "error"
  THEN [w |-> Raise(Log(w, "read", "pod", pod_name, "error"), "ApiException"),
        status |-> << >>]
  ELSE IF Has(w.pods, pod_name)
  THEN [w |-> Log(w, "read", "pod", pod_name, "ok"),
        status |-> << [phase |-> TheObj(w.pods, pod_name).phase] >>]
  ELSE [w |-> Log(w, "read", "pod", pod_name, "notfound"),
        status |-> << [phase |-> "Succeeded"] >>]

\* A bug that reports every pod that exists as not completed yet.
get_pod_status_never_done(w, pod_name, rd) ==
  IF rd = "error"
  THEN [w |-> Raise(Log(w, "read", "pod", pod_name, "error"), "ApiException"),
        status |-> << >>]
  ELSE IF Has(w.pods, pod_name)
  THEN [w |-> Log(w, "read", "pod", pod_name, "ok"),
        status |-> << [phase |-> "Pending"] >>]
  ELSE [w |-> Log(w, "read", "pod", pod_name, "notfound"), status |-> << >>]

\* get_pod_status: the pod's status projection (only "phase" is read by the
\* reconciler), << >> for None on 404; any other ApiException is re-raised.
get_pod_status(w, pod_name, rd) ==
  IF rd = "error"
  THEN [w |-> Raise(Log(w, "read", "pod", pod_name, "error"), "ApiException"),
        status |-> << >>]
  ELSE IF Has(w.pods, pod_name)
  THEN [w |-> Log(w, "read", "pod", pod_name, "ok"),
        status |-> << [phase |-> TheObj(w.pods, pod_name).phase] >>]
  ELSE [w |-> Log(w, "read", "pod", pod_name, "notfound"), status |-> << >>]

\* get_pod_logs: the tailed log; None (here the empty text, equally falsy)
\* on 404 and, after logging it, on every other ApiException.
get_pod_logs(w, pod_name, rd) ==
  IF rd = "error"
  THEN [w |-> Log(w, "log", "pod", pod_name, "error"), logs |-> << >>]
  ELSE IF Has(w.pods, pod_name)
  THEN [w |-> Log(w, "log", "pod", pod_name, "ok"),
        logs |-> TheObj(w.pods, pod_name).logs]
  ELSE [w |-> Log(w, "log", "pod", pod_name, "notfound"), logs |-> << >>]

\* ------------------------------------------------------- reconcile.py
\* ensure_pvc: read; when present, patch in the owner references if the
\* claim has none (a failing patch is only logged); on 404 create, and
\* re-raise whatever the create raises; re-raise any other read error.
\* A create answered 409 means another client created the claim meanwhile.
\* A bug that patches the owner references whenever the job has some.
AlwaysPatchOwners(owner_refs, pvc) == owner_refs # << >>

\* Line 23: owner_refs and (not pvc.metadata.owner_references or len(...) == 0)
NeedsOwnerPatch(owner_refs, pvc) == owner_refs # << >> /\ pvc.owners = << >>

ensure_pvc(w, pvc_name, storage_class, size, owner_refs, rd, wr) ==
  IF rd = "error"
  THEN Raise(Log(w, "read", "pvc", pvc_name, "error"), "ApiException")
  ELSE IF Has(w.pvcs, pvc_name)
  THEN LET w1 == Log(w, "read", "pvc", pvc_name, "ok")
           pvc == TheObj(w.pvcs, pvc_name)
       IN IF NeedsOwnerPatch(owner_refs, pvc)
          THEN CASE wr = "ok" ->
                      [Log(w1, "patch", "pvc", pvc_name, "ok") EXCEPT
                         !.pvcs = Without(@, pvc_name)
                                    \cup {[pvc EXCEPT !.owners = owner_refs]}]
                 [] wr = "race" ->
                      [Log(w1, "patch", "pvc", pvc_name, "notfound") EXCEPT
                         !.pvcs = Without(@, pvc_name)]
                 [] OTHER -> Log(w1, "patch", "pvc", pvc_name, "error")
          ELSE w1
  ELSE LET w1 == Log(w, "read", "pvc", pvc_name, "notfound")
           body == create_pvc_manifest(pvc_name, storage_class, size, owner_refs)
       IN CASE wr = "ok" ->
                 [Log(w1, "create", "pvc", pvc_name, "ok") EXCEPT
                    !.pvcs = @ \cup {body}]
            [] wr = "race" ->
                 Raise([Log(w1, "create", "pvc", pvc_name, "conflict") EXCEPT
                          !.pvcs = @ \cup {body}], "ApiException")
            [] OTHER ->
                 Raise(Log(w1, "create", "pvc", pvc_name, "error"), "ApiException")

\* A bug that puts a missing claim back before it creates the pod.
ensure_pod_restores_claim(w, pod_name, job_name, uid, spec, pvc_name, rd, wr) ==
  IF rd = "error"
  THEN Raise(Log(w, "read", "pod", pod_name, "error"), "ApiException")
  ELSE IF Has(w.pods, pod_name)
  THEN Log(w, "read", "pod", pod_name, "ok")
  ELSE LET w0 == IF Has(w.pvcs, pvc_name) THEN w
                 ELSE [Log(w, "create", "pvc", pvc_name, "ok") EXCEPT
                         !.pvcs = @ \cup {create_pvc_manifest(pvc_name,
                                             "local-path", "1Gi", << >>)}]
           w1 == Log(w0, "read", "pod", pod_name, "notfound")
           body == create_pod_manifest(pod_name, job_name, uid,
                                       Get(spec, "model", "resnet50"), pvc_name)
       IN CASE wr = "ok" ->
                 [Log(w1, "create", "pod", pod_name, "ok") EXCEPT
                    !.pods = @ \cup {body}]
            [] wr = "race" ->
                 Raise([Log(w1, "create", "pod", pod_name, "conflict") EXCEPT
                          !.pods = @ \cup {body}], "ApiException")
            [] OTHER ->
                 Raise(Log(w1, "create", "pod", pod_name, "error"), "ApiException")

\* ensure_pod: read; when present return; on 404 build the manifest and
\* create, re-raising whatever the create raises; re-raise other read errors.
ensure_pod(w, pod_name, job_name, uid, spec, pvc_name, rd, wr) ==
  IF rd = "error"
  THEN Raise(Log(w, "read", "pod", pod_name, "error"), "ApiException")
  ELSE IF Has(w.pods, pod_name)
  THEN Log(w, "read", "pod", pod_name, "ok")
  ELSE LET w1 == Log(w, "read", "pod", pod_name, "notfound")
           model == Get(spec, "model", "resnet50")
           body == create_pod_manifest(pod_name, job_name, uid, model, pvc_name)
       IN CASE wr = "ok" ->
                 [Log(w1, "create", "pod", pod_name, "ok") EXCEPT
                    !.pods = @ \cup {body}]
            [] wr = "race" ->
                 Raise([Log(w1, "create", "pod", pod_name, "conflict") EXCEPT
                          !.pods = @ \cup {body}], "ApiException")
            [] OTHER ->
                 Raise(Log(w1, "create", "pod", pod_name, "error"), "ApiException")

\* A bug that lets the 404 of a pod delete leave the function.
delete_pod_not_found_raises(w, pod_name, wr) ==
  [Log(w, "delete", "pod", pod_name, DeleteResult(w.pods, pod_name, wr)) EXCEPT
     !.pods = DeleteFrom(@, pod_name, wr),
     !.raised = IF DeleteResult(w.pods, pod_name, wr) = "notfound"
                THEN "ApiException" ELSE @]

\* v1.delete_namespaced_pod / delete_namespaced_persistent_volume_claim.
delete_pod(w, pod_name, wr) ==
  [Log(w, "delete", "pod", pod_name, DeleteResult(w.pods, pod_name, wr)) EXCEPT
     !.pods = DeleteFrom(@, pod_name, wr)]

\* A bug that removes the job's pod along with its claim.
delete_pvc_and_pod(w, pvc_name, wr) ==
  [Log(Log(w, "delete", "pvc", pvc_name, DeleteResult(w.pvcs, pvc_name, wr)),
       "delete", "pod", pod_name_of("j1"),
       DeleteResult(w.pods, pod_name_of("j1"), wr)) EXCEPT
     !.pvcs = DeleteFrom(@, pvc_name, wr),
     !.pods = DeleteFrom(@, pod_name_of("j1"), wr)]

delete_pvc(w, pvc_name, wr) ==
  [Log(w, "delete", "pvc", pvc_name, DeleteResult(w.pvcs, pvc_name, wr)) EXCEPT
     !.pvcs = DeleteFrom(@, pvc_name, wr)]

\* The answer of the most recent call of w.
LastRes(w) == w.calls[Len(w.calls)].res

\* A bug that keeps the head of the log instead of its tail.
FirstChars(s, n) == IF Len(s) <= n THEN s ELSE SubSeq(s, 1, n)

\* s[-n:]
LastChars(s, n) == IF Len(s) <= n THEN s ELSE SubSeq(s, Len(s) - n + 1, Len(s))

\* The status patches reconcile_gpujob returns. A message is the sequence of
\* the pieces of its text (fixed parts as strings, a log as its characters).
\* A bug that leaves the pod's name out of the Running patch.
RunningWithoutPodName(pod_name, now) ==
  [phase |-> PHASE_RUNNING, startedAt |-> IsoZ(now),
   message |-> <<"Pod created and starting">>]

\* A bug that stamps startedAt with a local time ahead of UTC.
RunningStartedLocal(pod_name, now) ==
  [phase |-> PHASE_RUNNING, startedAt |-> IsoZ(now + 1), podName |-> pod_name,
   message |-> <<"Pod created and starting">>]

\* Lines 151-156.
RunningPatch(pod_name, now) ==
  [phase |-> PHASE_RUNNING, startedAt |-> IsoZ(now), podName |-> pod_name,
   message |-> <<"Pod created and starting">>]

\* A bug that restarts the job when its pod is recreated.
RecreatedResetsPhase ==
  [phase |-> PHASE_PENDING, message |-> <<"Pod recreated">>]

\* Lines 165-167.
RecreatedPatch == [message |-> <<"Pod recreated">>]

\* Lines 173-181 and 192: message is replaced when the pod delete returned.
SucceededPatch(spec, now, deleted) ==
  [phase |-> PHASE_SUCCEEDED, finishedAt |-> IsoZ(now),
   artifactPath |-> Get(Get(spec, "output", EmptyDict), "path",
                       "/artifacts/output.json"),
   message |-> IF deleted THEN <<"Job completed, pod deleted">>
               ELSE <<"Job completed successfully">>]

\* A bug that forgets the timestamp of a failed job.
FailedWithoutFinishedAt(logs, now) ==
  [phase |-> PHASE_FAILED,
   message |-> IF logs # << >>
               THEN <<"Job failed. Last logs:\n">> \o LastChars(logs, LogTailChars)
               ELSE <<"Job failed">>]

\* Lines 201-210: "Job failed", or the prefix and the last 500 characters
\* of the log (a sequence of its characters after the prefix).
FailedPatch(logs, now) ==
  [phase |-> PHASE_FAILED, finishedAt |-> IsoZ(now),
   message |-> IF logs # << >>
               THEN <<"Job failed. Last logs:\n">> \o LastChars(logs, LogTailChars)
               ELSE <<"Job failed">>]

\* Lines 228-230.
PodPhasePatch(pod_phase) == [message |-> <<"Pod is ", pod_phase>>]

\* The outcomes of the API calls of one invocation, by call site:
\*   Pending : rd1 read claim, wr1 patch/create claim, rd2 read pod, wr2 create pod
\*   Running : rd1 get_pod_status, rd2 ensure_pod's read or the log tail,
\*             wr2 create pod or delete pod
\*   terminal: wr1 delete claim
NFaults(o) ==
  Cardinality({k \in {"rd1", "wr1", "rd2", "wr2"} : o[k] # "ok"})

Outcomes(rds1, wrs1, rds2, wrs2) ==
  {o \in [rd1 : rds1, wr1 : wrs1, rd2 : rds2, wr2 : wrs2] :
     NFaults(o) <= MaxFaults}

OutcomesFor(phase) ==
  CASE phase = PHASE_PENDING ->
         Outcomes(ReadOutcomes, WriteOutcomes, ReadOutcomes, WriteOutcomes)
    [] phase = PHASE_RUNNING ->
         Outcomes(ReadOutcomes, {"ok"}, ReadOutcomes, WriteOutcomes)
    [] phase \in Terminal ->
         Outcomes({"ok"}, {"ok", "error"}, {"ok"}, {"ok"})
    [] OTHER -> Outcomes({"ok"}, {"ok"}, {"ok"}, {"ok"})

\* Lines 141-156: Pending -> Running.
\* A bug that ensures the pod before the claim it mounts.
PendingBranchPodFirst(w, spec, name, uid, now, o) ==
  LET pvc_name == pvc_name_of(name)
      pod_name == pod_name_of(name)
      w1 == ensure_pod(w, pod_name, name, uid, spec, pvc_name, o.rd2, o.wr2)
      w2 == ensure_pvc(w1, pvc_name, Get(spec, "storageClass", "local-path"),
                       Get(spec, "pvcSize", "1Gi"),
                       owner_refs_of(name, uid), o.rd1, o.wr1)
  IN IF w1.raised # "" THEN [w |-> w1, patch |-> NoPatch]
     ELSE IF w2.raised # "" THEN [w |-> w2, patch |-> NoPatch]
     ELSE [w |-> w2, patch |-> RunningPatch(pod_name, now)]

PendingBranch(w, spec, name, uid, now, o) ==
  LET pvc_name == pvc_name_of(name)
      pod_name == pod_name_of(name)
      storage_class == Get(spec, "storageClass", "local-path")
      pvc_size == Get(spec, "pvcSize", "1Gi")
      w1 == ensure_pvc(w, pvc_name, storage_class, pvc_size,
                       owner_refs_of(name, uid), o.rd1, o.wr1)
      w2 == ensure_pod(w1, pod_name, name, uid, spec, pvc_name, o.rd2, o.wr2)
  IN IF w1.raised # "" THEN [w |-> w1, patch |-> NoPatch]
     ELSE IF w2.raised # "" THEN [w |-> w2, patch |-> NoPatch]
     ELSE [w |-> w2, patch |-> RunningPatch(pod_name, now)]

\* A bug that deletes the succeeded pod whatever its TTL.
PodTtlIgnored(ttl) == TRUE

\* Line 184: if ttl == 0
DeletePodNow(ttl) == ttl = 0

\* Lines 159-230: Running, by what the pod read shows.
RunningBranch(w, spec, name, uid, now, o) ==
  LET pvc_name == pvc_name_of(name)
      pod_name == pod_name_of(name)
      st == get_pod_status(w, pod_name, o.rd1)
  IN IF st.w.raised # "" THEN [w |-> st.w, patch |-> NoPatch]
     ELSE IF st.status = << >>
     THEN LET w1 == ensure_pod(st.w, pod_name, name, uid, spec, pvc_name,
                               o.rd2, o.wr2)
          IN IF w1.raised # "" THEN [w |-> w1, patch |-> NoPatch]
             ELSE [w |-> w1, patch |-> RecreatedPatch]
     ELSE LET pod_phase == st.status[1].phase IN
       CASE pod_phase = "Succeeded" ->
              IF DeletePodNow(Get(spec, "ttlSecondsAfterFinished", DefaultPodTTL))
              THEN LET w1 == delete_pod(st.w, pod_name, o.wr2)
                   IN [w |-> w1,
                       patch |-> SucceededPatch(spec, now, LastRes(w1) = "ok")]
              ELSE [w |-> st.w, patch |-> SucceededPatch(spec, now, FALSE)]
         [] pod_phase = "Failed" ->
              LET lg == get_pod_logs(st.w, pod_name, o.rd2)
                  w1 == delete_pod(lg.w, pod_name, o.wr2)
              IN [w |-> w1, patch |-> FailedPatch(lg.logs, now)]
         [] OTHER -> [w |-> st.w, patch |-> PodPhasePatch(pod_phase)]

\* A bug that reads the claim TTL with `or`: 0 is falsy and becomes the default.
pvc_ttl_falsy_zero(spec) ==
  LET v == Get(spec, "pvcTTLSecondsAfterFinished", DefaultPvcTTL)
  IN IF v = 0 THEN DefaultPvcTTL ELSE v

\* Line 235: spec.get("pvcTTLSecondsAfterFinished", 3600)
pvc_ttl_of(spec) == Get(spec, "pvcTTLSecondsAfterFinished", DefaultPvcTTL)

\* Bugs in the expiry test: one unit early, and strict.
ExpiredEarly(elapsed, pvc_ttl) == elapsed + 1 >= pvc_ttl
ExpiredStrict(elapsed, pvc_ttl) == elapsed > pvc_ttl

\* Line 259: elapsed >= pvc_ttl
Expired(elapsed, pvc_ttl) == elapsed >= pvc_ttl

\* A bug that parses finishedAt outside the try block: the ValueError of a
\* timestamp that cannot be parsed leaves the function.
TerminalBranchUnguarded(w, spec, status, name, now, o) ==
  LET pvc_name == pvc_name_of(name)
      pvc_ttl == pvc_ttl_of(spec)
      w1 == delete_pvc(w, pvc_name, o.wr1)
  IN IF pvc_ttl = 0
     THEN IF LastRes(w1) = "ok"
          THEN [w |-> w1, patch |-> [message |-> <<"PVC deleted (TTL=0)">>]]
          ELSE [w |-> w1, patch |-> NoPatch]
     ELSE IF "finishedAt" \in DOMAIN status /\ pvc_ttl > 0
     THEN IF ~Parsable(status.finishedAt)
          THEN [w |-> Raise(w, "ValueError"), patch |-> NoPatch]
          ELSE IF Expired(now - FinishedTime(status.finishedAt), pvc_ttl)
          THEN IF LastRes(w1) = "ok"
               THEN [w |-> w1, patch |-> [message |-> <<"PVC deleted (TTL expired)">>]]
               ELSE [w |-> w1, patch |-> NoPatch]
          ELSE [w |-> w, patch |-> NoPatch]
     ELSE [w |-> w, patch |-> NoPatch]

\* A bug that takes a status without finishedAt for one long finished.
TerminalBranchNoTimestampExpired(w, spec, status, name, now, o) ==
  LET pvc_name == pvc_name_of(name)
      pvc_ttl == pvc_ttl_of(spec)
      w1 == delete_pvc(w, pvc_name, o.wr1)
      deleted == IF LastRes(w1) = "ok"
                 THEN [w |-> w1,
                       patch |-> [message |-> <<"PVC deleted (TTL expired)">>]]
                 ELSE [w |-> w1, patch |-> NoPatch]
  IN IF pvc_ttl = 0
     THEN IF LastRes(w1) = "ok"
          THEN [w |-> w1, patch |-> [message |-> <<"PVC deleted (TTL=0)">>]]
          ELSE [w |-> w1, patch |-> NoPatch]
     ELSE IF "finishedAt" \in DOMAIN status /\ pvc_ttl > 0
     THEN IF ~Parsable(status.finishedAt)
          THEN [w |-> w, patch |-> NoPatch]
          ELSE IF Expired(now - FinishedTime(status.finishedAt), pvc_ttl)
          THEN deleted
          ELSE [w |-> w, patch |-> NoPatch]
     ELSE deleted

\* Lines 233-272: Succeeded or Failed, the claim's TTL.
TerminalBranch(w, spec, status, name, now, o) ==
  LET pvc_name == pvc_name_of(name)
      pvc_ttl == pvc_ttl_of(spec)
      w1 == delete_pvc(w, pvc_name, o.wr1)
  IN IF pvc_ttl = 0
     THEN IF LastRes(w1) = "ok"
          THEN [w |-> w1, patch |-> [message |-> <<"PVC deleted (TTL=0)">>]]
          ELSE [w |-> w1, patch |-> NoPatch]
     ELSE IF "finishedAt" \in DOMAIN status /\ pvc_ttl > 0
     THEN IF ~Parsable(status.finishedAt)
          THEN [w |-> w, patch |-> NoPatch]
          ELSE IF Expired(now - FinishedTime(status.finishedAt), pvc_ttl)
          THEN IF LastRes(w1) = "ok"
               THEN [w |-> w1, patch |-> [message |-> <<"PVC deleted (TTL expired)">>]]
               ELSE [w |-> w1, patch |-> NoPatch]
          ELSE [w |-> w, patch |-> NoPatch]
     ELSE [w |-> w, patch |-> NoPatch]

\* reconcile_gpujob(spec, status, name, namespace, uid): validate the model,
\* then branch on the observed phase. The result is the cluster after the
\* calls (with w.raised the exception that left the function) and the patch.
reconcile_gpujob(spec, status, name, uid, w, now, o) ==
  LET current_phase == Get(status, "phase", PHASE_PENDING) IN
  IF Get(spec, "model", "resnet50") \notin ALLOWED_MODELS
  THEN [w |-> Raise(w, "ValueError"), patch |-> NoPatch]
  ELSE CASE current_phase = PHASE_PENDING ->
              PendingBranch(w, spec, name, uid, now, o)
         [] current_phase = PHASE_RUNNING ->
              RunningBranch(w, spec, name, uid, now, o)
         [] current_phase \in Terminal ->
              TerminalBranch(w, spec, status, name, now, o)
         [] OTHER -> [w |-> w, patch |-> NoPatch]

\* ------------------------------------------------------------------ state
VARIABLES
  spec,        \* the job's .spec (a dict)
  uid,         \* the job's metadata.uid ("" when not known)
  status,      \* the job's .status (a dict)
  pods,        \* the pods of the namespace
  pvcs,        \* the volume claims of the namespace
  now,         \* datetime.utcnow()
  pending,     \* a create/update event (or its retry) awaits gpujob_handler
  podDeletes,  \* successful pod deletes issued by the reconciler
  pvcDeletes,  \* successful claim deletes issued by the reconciler
  inflight,    \* the invocations in progress, by entry point, when their
               \* API calls are taken one at a time
  last         \* the most recent invocation: what it observed (spec, status,
               \* now, pods, pvcs), its calls, the pods and claims it left,
               \* its result and patch, and whether it or an earlier one was
               \* rejected by the validation

vars == <<spec, uid, status, pods, pvcs, now, pending,
          podDeletes, pvcDeletes, inflight, last>>

\* An entry point that is not running: no position, nothing raised, no
\* patch returned.
Idle == [pc |-> "idle", conflict |-> FALSE, raised |-> "", patch |-> NoPatch]
NoneInFlight == [e \in {"handler", "timer"} |-> Idle]

JobName == "j1"

\* An optional spec field: << >> leaves the key out, <<v>> sets it.
Field(key, opt) == IF opt = << >> THEN EmptyDict ELSE [k \in {key} |-> opt[1]]

MkSpec(model, ttl, pvc_ttl) ==
  Merge(Merge(Field("model", model), Field("ttlSecondsAfterFinished", ttl)),
        Field("pvcTTLSecondsAfterFinished", pvc_ttl))

\* The specs a user submits: the model left out (resnet50), allowed or not
\* allowed; the pod TTL left out (0), 0 or positive; the claim TTL left out
\* (3600), 0 or positive.
Specs ==
  { MkSpec(<< >>, << >>, << >>),
    MkSpec(<< >>, <<0>>, <<0>>),
    MkSpec(<< >>, << >>, <<1>>),
    MkSpec(<<"mobilenet_v3_small">>, <<1>>, <<1>>),
    MkSpec(<<"mobilenet_v3_small">>, <<1>>, <<0>>),
    MkSpec(<<"llama">>, <<0>>, <<0>>) }

\* The logs a failing container leaves (characters).
LogChoices == {<< >>, <<"C", "U", "D", "A">>}

NoInvocation ==
  [entry |-> "none", calls |-> << >>, patch |-> NoPatch, raised |-> "",
   error |-> "", written |-> FALSE, status |-> EmptyDict, now |-> 0,
   pods |-> {}, pvcs |-> {}, podsAfter |-> {}, pvcsAfter |-> {},
   spec |-> EmptyDict, rejected |-> FALSE]

Init ==
  /\ spec \in Specs
  /\ uid = "uid-1"
  /\ status = EmptyDict
  /\ pods = {}
  /\ pvcs = {}
  /\ now = 0
  /\ pending = TRUE
  /\ podDeletes = 0
  /\ pvcDeletes = 0
  /\ inflight = NoneInFlight
  /\ last = NoInvocation

\* Successful deletes of one kind among the calls of an invocation.
NDeleted(calls, kind) ==
  Cardinality({i \in 1..Len(calls) :
                 calls[i].verb = "delete" /\ calls[i].kind = kind
                 /\ calls[i].res = "ok"})

\* One invocation of reconcile_gpujob from an entry point, with the framework
\* writing the returned patch to .status unless the write is rejected (lose).
\* error is what the entry point raises to the framework.
Results ==
  {reconcile_gpujob(spec, status, JobName, uid,
      [pods |-> pods, pvcs |-> pvcs, calls |-> << >>, raised |-> ""], now, o) :
   o \in OutcomesFor(Get(status, "phase", PHASE_PENDING))}

Invoke(entry, error_of, r, lose) ==
  LET written == DOMAIN r.patch # {} /\ ~lose
  IN /\ lose => (DOMAIN r.patch # {} /\ podDeletes < MaxPodDeletes)
     /\ pods' = r.w.pods
     /\ pvcs' = r.w.pvcs
     /\ status' = IF written THEN Merge(status, r.patch) ELSE status
     /\ podDeletes' = podDeletes + NDeleted(r.w.calls, "pod")
     /\ pvcDeletes' = pvcDeletes + NDeleted(r.w.calls, "pvc")
     /\ last' = [entry |-> entry, calls |-> r.w.calls, patch |-> r.patch,
                 raised |-> r.w.raised, error |-> error_of[r.w.raised],
                 written |-> written, status |-> status, now |-> now,
                 pods |-> pods, pvcs |-> pvcs, podsAfter |-> r.w.pods,
                 pvcsAfter |-> r.w.pvcs, spec |-> spec,
                 rejected |-> (last.rejected \/ r.w.raised = "ValueError")]

\* A bug that retries a validation error like any other.
HandlerErrorAllTemporary ==
  [e \in {"", "ValueError", "ApiException"} |->
     IF e = "" THEN "" ELSE "TemporaryError"]

\* main.py gpujob_handler: ValueError -> kopf.PermanentError (no retry),
\* any other exception -> kopf.TemporaryError (retried after 30 s).
HandlerError ==
  [e \in {"", "ValueError", "ApiException"} |->
     CASE e = "ValueError" -> "PermanentError"
       [] e = "ApiException" -> "TemporaryError"
       [] OTHER -> ""]

\* main.py gpujob_timer: every exception is logged and swallowed.
TimerError == [e \in {"", "ValueError", "ApiException"} |-> ""]

gpujob_handler ==
  /\ pending
  /\ \E r \in Results, lose \in BOOLEAN :
       /\ Invoke("handler", HandlerError, r, lose)
       /\ pending' = (lose \/ last'.error = "TemporaryError")
  /\ UNCHANGED <<inflight, spec, uid, now>>

\* A bug that stops the timer's reconciles once the job is terminal.
gpujob_timer_skips_terminal ==
  /\ Get(status, "phase", PHASE_PENDING) \notin Terminal
  /\ \E r \in Results, lose \in BOOLEAN :
       Invoke("timer", TimerError, r, lose)
  /\ UNCHANGED <<inflight, spec, uid, now, pending>>

gpujob_timer ==
  /\ \E r \in Results, lose \in BOOLEAN :
       Invoke("timer", TimerError, r, lose)
  /\ UNCHANGED <<inflight, spec, uid, now, pending>>

\* ------------------------------------------------------------ environment
\* The clock advances.
Tick ==
  /\ now < MaxTime
  /\ now' = now + 1
  /\ UNCHANGED <<inflight, spec, uid, status, pods, pvcs, pending,
                 podDeletes, pvcDeletes, last>>

\* The kubelet runs a pod to completion: Pending stands for every pod phase
\* before Succeeded and Failed.
SetPod(p, q) ==
  /\ pods' = (pods \ {p}) \cup {q}
  /\ UNCHANGED <<inflight, spec, uid, status, pvcs, now, pending,
                 podDeletes, pvcDeletes, last>>

PodSucceed ==
  \E p \in pods : p.phase = "Pending"
                  /\ SetPod(p, [p EXCEPT !.phase = "Succeeded"])

PodFail ==
  \E p \in pods, lg \in LogChoices :
     p.phase = "Pending"
     /\ SetPod(p, [p EXCEPT !.phase = "Failed", !.logs = lg])

\* A user (or an eviction) deletes the pod; a user deletes the claim.
ExternalDeletePod ==
  /\ pods # {}
  /\ pods' = {}
  /\ UNCHANGED <<inflight, spec, uid, status, pvcs, now, pending,
                 podDeletes, pvcDeletes, last>>

ExternalDeletePvc ==
  /\ pvcs # {}
  /\ pvcs' = {}
  /\ UNCHANGED <<inflight, spec, uid, status, pods, now, pending,
                 podDeletes, pvcDeletes, last>>

Next ==
  \/ gpujob_handler
  \/ gpujob_timer
  \/ Tick
  \/ PodSucceed
  \/ PodFail
  \/ ExternalDeletePod
  \/ ExternalDeletePvc

Spec == Init /\ [][Next]_vars

\* ------------------------------------------- a job whose spec is updated
\* cli/main.py create_pvc: the claim the CLI creates ahead of the job, with
\* no owner reference.
CliPvc == create_pvc_manifest(pvc_name_of(JobName), "longhorn", "1Gi", << >>)

\* What an earlier job of the same name (uid-0) left behind: its claim and
\* its pod, which the garbage collector has not removed yet.
StalePvc ==
  create_pvc_manifest(pvc_name_of(JobName), "local-path", "1Gi",
                      owner_refs_of(JobName, "uid-0"))
StalePod ==
  create_pod_manifest(pod_name_of(JobName), JobName, "uid-0", "resnet50",
                      pvc_name_of(JobName))

\* Specs with a model that is not allowed, with everything in range, and
\* with negative TTLs.
LiveSpecs ==
  { MkSpec(<<"llama">>, << >>, << >>),
    MkSpec(<< >>, <<0>>, <<0>>),
    MkSpec(<< >>, <<-1>>, <<-1>>) }

\* The job is new; the namespace is empty, or holds the CLI's claim (seen
\* with the job's uid and, for `if uid:`, without one), or holds what the
\* earlier job left.
InitLive ==
  /\ spec \in LiveSpecs
  /\ status = EmptyDict
  /\ \/ uid = "uid-1" /\ pods = {} /\ pvcs = {}
     \/ uid = "uid-1" /\ pods = {} /\ pvcs = {CliPvc}
     \/ uid = "" /\ pods = {} /\ pvcs = {CliPvc}
     \/ uid = "uid-1" /\ pods = {StalePod} /\ pvcs = {StalePvc}
  /\ now = 0
  /\ pending = TRUE
  /\ podDeletes = 0
  /\ pvcDeletes = 0
  /\ inflight = NoneInFlight
  /\ last = NoInvocation

\* Line 113: model not in crd.ALLOWED_MODELS
ModelAllowed(s) == Get(s, "model", "resnet50") \in ALLOWED_MODELS

\* main.py @kopf.on.update: once the handler has dealt with the last event,
\* the user changes the spec, from a rejected model to an allowed one or
\* back, and the change is an event for gpujob_handler.
UpdateSpec ==
  /\ ~pending
  /\ \E s \in LiveSpecs : ModelAllowed(s) # ModelAllowed(spec) /\ spec' = s
  /\ pending' = TRUE
  /\ UNCHANGED <<inflight, uid, status, pods, pvcs, now, podDeletes, pvcDeletes, last>>

\* The clock stands still here: none of LiveSpecs has a positive TTL, so no
\* branch these jobs take depends on the time.
NextLive ==
  \/ gpujob_handler
  \/ gpujob_timer
  \/ UpdateSpec
  \/ PodSucceed
  \/ PodFail
  \/ ExternalDeletePod
  \/ ExternalDeletePvc

SpecLive == InitLive /\ [][NextLive]_vars

\* ------------------------------------------- a job run to completion
\* Specs for the run to completion: every default, a pod that is kept with a
\* claim that is not, and a model that is not allowed.
FairSpecs ==
  { MkSpec(<< >>, << >>, << >>),
    MkSpec(<<"mobilenet_v3_small">>, <<1>>, <<0>>),
    MkSpec(<<"llama">>, << >>, << >>) }

InitFair ==
  /\ spec \in FairSpecs
  /\ uid = "uid-1"
  /\ status = EmptyDict
  /\ pods = {}
  /\ pvcs = {}
  /\ now = 0
  /\ pending = TRUE
  /\ podDeletes = 0
  /\ pvcDeletes = 0
  /\ inflight = NoneInFlight
  /\ last = NoInvocation

\* Every API call of the invocation is answered and applied.
AllAnswered == [rd1 |-> "ok", wr1 |-> "ok", rd2 |-> "ok", wr2 |-> "ok"]

\* A run of gpujob_timer (interval=30) in which the API answers every call
\* and the returned patch is written.
timer_answered ==
  /\ \E r \in {reconcile_gpujob(spec, status, JobName, uid,
                 [pods |-> pods, pvcs |-> pvcs, calls |-> << >>, raised |-> ""],
                 now, AllAnswered)} :
        Invoke("timer", TimerError, r, FALSE)
  /\ UNCHANGED <<inflight, spec, uid, now, pending>>

\* What the cluster did to the most recent invocation: an API call failed,
\* a write lost a race (the create was answered already-exists; the patch,
\* or the delete of an object that was there, was answered not-found), or
\* the returned patch was rejected.
Disturbed ==
  \/ \E i \in DOMAIN last.calls :
        \/ last.calls[i].res \in {"error", "conflict"}
        \/ /\ last.calls[i].res = "notfound"
           /\ last.calls[i].verb \in {"patch", "delete"}
           /\ Has(last.pods \cup last.pvcs, last.calls[i].name)
  \/ DOMAIN last.patch # {} /\ ~last.written

\* The clock stands still: whether the job completes does not depend on it.
NextFair ==
  \/ gpujob_handler
  \/ gpujob_timer
  \/ PodSucceed
  \/ PodFail
  \/ ExternalDeletePod
  \/ ExternalDeletePvc

\* The timer keeps firing (interval=30); the kubelet runs every pod to
\* completion; the deletes by users come to an end, and so do the API's
\* failures, the lost races and the rejected patches.
Fairness ==
  /\ WF_vars(timer_answered)
  /\ WF_vars(PodSucceed \/ PodFail)
  /\ <>[][~(ExternalDeletePod \/ ExternalDeletePvc)]_vars
  /\ <>[]~Disturbed

SpecFair == InitFair /\ [][NextFair]_vars /\ Fairness

\* ------------------------------------- a finished job and its timestamp
\* The reconciler is handed a terminal status whose finishedAt was written
\* by any client: in UTC with "Z", naive, with an offset ahead of or behind
\* UTC, or as text that is no timestamp ("?").
Zones == {"Z", "", "+00:01", "-00:01", "?"}

ClockSpecs == { MkSpec(<< >>, << >>, <<1>>), MkSpec(<< >>, << >>, <<2>>) }

ClockStatus(p, ts) ==
  Merge(RunningPatch(pod_name_of(JobName), 0),
        [phase |-> p, finishedAt |-> ts, message |-> <<"Job failed">>])

\* A terminal status without finishedAt, as an edit of the status (or a
\* writer other than this operator) can leave it.
ClockStatusUnfinished(p) ==
  Merge(RunningPatch(pod_name_of(JobName), 0),
        [phase |-> p, message |-> <<"Job failed">>])

InitClock ==
  /\ spec \in ClockSpecs
  /\ uid = "uid-1"
  /\ status \in {ClockStatus(p, [wall |-> t, zone |-> z]) :
                   p \in Terminal, t \in 0..MaxTime, z \in Zones}
                 \cup {ClockStatusUnfinished(p) : p \in Terminal}
  /\ pods = {}
  /\ pvcs = {create_pvc_manifest(pvc_name_of(JobName), "local-path", "1Gi",
                                 owner_refs_of(JobName, "uid-1"))}
  /\ now = 0
  /\ pending = TRUE
  /\ podDeletes = 0
  /\ pvcDeletes = 0
  /\ inflight = NoneInFlight
  /\ last = NoInvocation

NextClock ==
  \/ gpujob_handler
  \/ gpujob_timer
  \/ Tick
  \/ ExternalDeletePvc

SpecClock == InitClock /\ [][NextClock]_vars

\* ------------------------------------------------ a job whose pod fails
\* A log of n characters: two of a header, then the body, then a last one.
LogOf(n) ==
  [i \in 1..n |-> IF i <= 2 THEN "H" ELSE IF i = n THEN "Z" ELSE "a"]

\* What read_namespaced_pod_log returns for the failed pod: nothing, a short
\* text, a text of exactly the tail's length and a longer one.
LongLogs == {LogOf(0), LogOf(3), LogOf(LogTailChars), LogOf(LogTailChars + 2)}

LogSpecs == { MkSpec(<< >>, << >>, << >>), MkSpec(<< >>, <<1>>, <<1>>) }

InitLogs ==
  /\ spec \in LogSpecs
  /\ uid = "uid-1"
  /\ status = EmptyDict
  /\ pods = {}
  /\ pvcs = {}
  /\ now = 0
  /\ pending = TRUE
  /\ podDeletes = 0
  /\ pvcDeletes = 0
  /\ inflight = NoneInFlight
  /\ last = NoInvocation

PodFailLong ==
  \E p \in pods, lg \in LongLogs :
     p.phase = "Pending"
     /\ SetPod(p, [p EXCEPT !.phase = "Failed", !.logs = lg])

NextLogs ==
  \/ gpujob_handler
  \/ gpujob_timer
  \/ PodFailLong
  \/ ExternalDeletePod

SpecLogs == InitLogs /\ [][NextLogs]_vars

\* ------------------------------------------------ a job that is deleted
\* A bug that makes the delete handler clean up the children itself.
gpujob_delete_cleans_up ==
  /\ last.entry # "delete"
  /\ pods' = Without(pods, pod_name_of(JobName))
  /\ pvcs' = Without(pvcs, pvc_name_of(JobName))
  /\ last' = [entry |-> "delete",
              calls |-> << Call("delete", "pod", pod_name_of(JobName), "ok"),
                           Call("delete", "pvc", pvc_name_of(JobName), "ok") >>,
              patch |-> NoPatch, raised |-> "", error |-> "",
              written |-> FALSE, status |-> status, now |-> now,
              pods |-> pods, pvcs |-> pvcs, podsAfter |-> pods',
              pvcsAfter |-> pvcs', spec |-> spec, rejected |-> last.rejected]
  /\ UNCHANGED <<inflight, spec, uid, status, now, pending, podDeletes, pvcDeletes>>

\* main.py gpujob_delete (@kopf.on.delete): logs a line and returns; the
\* job is gone afterwards and neither entry point runs for it again.
gpujob_delete ==
  /\ last.entry # "delete"
  /\ last' = [entry |-> "delete", calls |-> << >>,
              patch |-> NoPatch, raised |-> "", error |-> "",
              written |-> FALSE, status |-> status, now |-> now,
              pods |-> pods, pvcs |-> pvcs, podsAfter |-> pods,
              pvcsAfter |-> pvcs, spec |-> spec, rejected |-> last.rejected]
  /\ UNCHANGED <<inflight, spec, uid, status, pods, pvcs, now, pending,
                 podDeletes, pvcDeletes>>

\* The job is reconciled while it lives; the kubelet goes on running its pod
\* after the job was deleted.
NextDelete ==
  \/ last.entry # "delete" /\ gpujob_handler
  \/ last.entry # "delete" /\ gpujob_timer
  \/ PodSucceed
  \/ PodFail
  \/ Tick
  \/ gpujob_delete

SpecDelete == Init /\ [][NextDelete]_vars

\* ------------------------------------------------- interleaved reconciles
\* The handler and the timer call the same reconcile_gpujob, and nothing in
\* main.py or reconcile.py orders them: here each of the two takes the
\* Pending branch one API call at a time, the other one's calls (and a
\* user's deletes) falling in between. Each was handed the status as it was
\* when it entered.
Entries == {"handler", "timer"}

\* A bug that takes a create answered 409 for a success.
CreateConflictTolerated == "continue"

\* Lines 59-61 and 99-101: except Exception ... raise.
OnCreateConflict == "raise"

At(e, pc) == inflight[e].pc = pc

Move(e, pc) == inflight' = [inflight EXCEPT ![e].pc = pc]

\* The create of e was answered 409: the exception leaves reconcile_gpujob,
\* unless it is tolerated and e carries on at pc.
Conflict(e, pc) ==
  inflight' = [inflight EXCEPT
                 ![e].conflict = TRUE,
                 ![e].pc = IF OnCreateConflict = "raise" THEN "done" ELSE pc,
                 ![e].raised = IF OnCreateConflict = "raise"
                               THEN "ApiException" ELSE @]

\* Lines 112-116 and 141: the model is allowed and the status handed in is
\* Pending. The handler runs while a create/update event is outstanding.
enter(e) ==
  /\ At(e, "idle")
  /\ e = "handler" => pending
  /\ Get(spec, "model", "resnet50") \in ALLOWED_MODELS
  /\ Get(status, "phase", PHASE_PENDING) = PHASE_PENDING
  /\ Move(e, "read_pvc")
  /\ UNCHANGED <<spec, uid, status, pods, pvcs, now, pending,
                 podDeletes, pvcDeletes, last>>

\* Lines 17-23 and 49-50.
read_pvc(e) ==
  /\ At(e, "read_pvc")
  /\ Move(e, IF ~Has(pvcs, pvc_name_of(JobName)) THEN "create_pvc"
             ELSE IF NeedsOwnerPatch(owner_refs_of(JobName, uid),
                                     TheObj(pvcs, pvc_name_of(JobName)))
             THEN "patch_pvc" ELSE "read_pod")
  /\ UNCHANGED <<spec, uid, status, pods, pvcs, now, pending,
                 podDeletes, pvcDeletes, last>>

\* Lines 24-46: the patch, whose failure (the claim is gone) is only logged.
patch_pvc(e) ==
  /\ At(e, "patch_pvc")
  /\ pvcs' = {[c EXCEPT !.owners = owner_refs_of(JobName, uid)] : c \in pvcs}
  /\ Move(e, "read_pod")
  /\ UNCHANGED <<spec, uid, status, pods, now, pending,
                 podDeletes, pvcDeletes, last>>

\* Lines 51-61.
create_pvc(e) ==
  /\ At(e, "create_pvc")
  /\ IF Has(pvcs, pvc_name_of(JobName))
     THEN Conflict(e, "read_pod") /\ UNCHANGED pvcs
     ELSE /\ pvcs' = pvcs \cup
                 {create_pvc_manifest(pvc_name_of(JobName),
                     Get(spec, "storageClass", "local-path"),
                     Get(spec, "pvcSize", "1Gi"), owner_refs_of(JobName, uid))}
          /\ Move(e, "read_pod")
  /\ UNCHANGED <<spec, uid, status, pods, now, pending,
                 podDeletes, pvcDeletes, last>>

\* Lines 70-74.
read_pod(e) ==
  /\ At(e, "read_pod")
  /\ Move(e, IF Has(pods, pod_name_of(JobName)) THEN "return"
             ELSE "create_pod")
  /\ UNCHANGED <<spec, uid, status, pods, pvcs, now, pending,
                 podDeletes, pvcDeletes, last>>

\* Lines 75-101.
create_pod(e) ==
  /\ At(e, "create_pod")
  /\ IF Has(pods, pod_name_of(JobName))
     THEN Conflict(e, "return") /\ UNCHANGED pods
     ELSE /\ pods' = pods \cup
                 {create_pod_manifest(pod_name_of(JobName), JobName, uid,
                     Get(spec, "model", "resnet50"), pvc_name_of(JobName))}
          /\ Move(e, "return")
  /\ UNCHANGED <<spec, uid, status, pvcs, now, pending,
                 podDeletes, pvcDeletes, last>>

\* Lines 151-156, and the framework writing the patch to .status.
return_running(e) ==
  /\ At(e, "return")
  /\ inflight' = [inflight EXCEPT
                    ![e].pc = "done",
                    ![e].patch = RunningPatch(pod_name_of(JobName), now)]
  /\ status' = Merge(status, RunningPatch(pod_name_of(JobName), now))
  /\ UNCHANGED <<spec, uid, pods, pvcs, now, pending,
                 podDeletes, pvcDeletes, last>>

\* The entry point returns to the framework: the handler's event is done
\* unless it raised (TemporaryError, retried), the timer waits for its tick.
leave(e) ==
  /\ At(e, "done")
  /\ pending' = IF e = "handler" THEN inflight[e].raised # "" ELSE pending
  /\ inflight' = [inflight EXCEPT ![e] = Idle]
  /\ UNCHANGED <<spec, uid, status, pods, pvcs, now,
                 podDeletes, pvcDeletes, last>>

InitRace ==
  /\ spec = MkSpec(<< >>, << >>, << >>)
  /\ uid = "uid-1"
  /\ status = EmptyDict
  /\ pods = {}
  /\ pvcs \in {{}, {CliPvc}}
  /\ now = 0
  /\ pending = TRUE
  /\ podDeletes = 0
  /\ pvcDeletes = 0
  /\ inflight = NoneInFlight
  /\ last = NoInvocation

NextRace ==
  \/ \E e \in Entries : enter(e)
  \/ \E e \in Entries : read_pvc(e)
  \/ \E e \in Entries : patch_pvc(e)
  \/ \E e \in Entries : create_pvc(e)
  \/ \E e \in Entries : read_pod(e)
  \/ \E e \in Entries : create_pod(e)
  \/ \E e \in Entries : return_running(e)
  \/ \E e \in Entries : leave(e)
  \/ ExternalDeletePod
  \/ ExternalDeletePvc

SpecRace == InitRace /\ [][NextRace]_vars

\* ------------------------------------------------------------ properties
\* The vocabulary of the properties: the job's children, what the most recent
\* invocation observed on entry and what the API answered to its calls.
PodName == pod_name_of(JobName)
PvcName == pvc_name_of(JobName)
Ran == last.entry # "none"
Phase == Get(status, "phase", PHASE_PENDING)
ObservedPhase == Get(last.status, "phase", PHASE_PENDING)
PodTTL == Get(spec, "ttlSecondsAfterFinished", DefaultPodTTL)
PvcTTL == Get(spec, "pvcTTLSecondsAfterFinished", DefaultPvcTTL)
Answers == {last.calls[i].res : i \in DOMAIN last.calls}
\* now - finishedAt as the invocation saw it (finishedAt is written in UTC).
Elapsed == last.now - last.status.finishedAt.wall
ObservedTerminal == Ran /\ ObservedPhase \in Terminal

\* Pending -> Running -> {Succeeded, Failed}, reflexive and transitive.
PhaseOrder ==
  { <<PHASE_PENDING, PHASE_PENDING>>, <<PHASE_PENDING, PHASE_RUNNING>>,
    <<PHASE_PENDING, PHASE_SUCCEEDED>>, <<PHASE_PENDING, PHASE_FAILED>>,
    <<PHASE_RUNNING, PHASE_RUNNING>>, <<PHASE_RUNNING, PHASE_SUCCEEDED>>,
    <<PHASE_RUNNING, PHASE_FAILED>>, <<PHASE_SUCCEEDED, PHASE_SUCCEEDED>>,
    <<PHASE_FAILED, PHASE_FAILED>> }

\* C1 (monotonic phase): the status phase after an invocation is the observed
\* phase or one later in Pending -> Running -> {Succeeded, Failed}; a returned
\* patch that carries a phase carries no earlier one, and a patch returned
\* for a job observed Succeeded or Failed leaves the phase as it was.
MonotonicPhase ==
  /\ <<ObservedPhase, Phase>> \in PhaseOrder
  /\ "phase" \in DOMAIN last.patch =>
        <<ObservedPhase, last.patch.phase>> \in PhaseOrder
  /\ ObservedTerminal => Phase = ObservedPhase

\* A reconcile of a terminal job wrote a patch and the phase stayed.
MonotonicPhaseWitness ==
  ObservedTerminal /\ last.written /\ Phase = ObservedPhase

\* C2 (terminal timestamp): the status has finishedAt exactly when its phase
\* is Succeeded or Failed; a returned patch that sets a terminal phase sets
\* finishedAt, and a patch sets finishedAt only with a terminal phase.
TerminalTimestamp ==
  /\ ("finishedAt" \in DOMAIN status) <=> (Phase \in Terminal)
  /\ ("phase" \in DOMAIN last.patch /\ last.patch.phase \in Terminal)
        => "finishedAt" \in DOMAIN last.patch
  /\ "finishedAt" \in DOMAIN last.patch
        => ("phase" \in DOMAIN last.patch /\ last.patch.phase \in Terminal)

\* The patch of a failed run was written with its timestamp.
TerminalTimestampWitness ==
  /\ last.written
  /\ "phase" \in DOMAIN last.patch
  /\ last.patch.phase = PHASE_FAILED
  /\ "finishedAt" \in DOMAIN status
  /\ Phase = PHASE_FAILED

\* C3 (pod deleted on success): in every state where the status phase is
\* Succeeded and the pod TTL is 0 or absent, the job's pod no longer exists.
PodGoneWhenSucceeded ==
  (Phase = PHASE_SUCCEEDED /\ PodTTL = 0) => ~Has(pods, PodName)

\* C4 (failed pod deleted): in every state where the status phase is Failed,
\* the job's pod no longer exists, whatever the pod TTL.
PodGoneWhenFailed ==
  Phase = PHASE_FAILED => ~Has(pods, PodName)

\* C5 (pod disappearance): a reconcile of a Running job whose pod read is
\* answered not-found, and whose calls do not fail, creates the pod under the
\* derived name with the job's uid as its owner and returns a patch with the
\* message as its only key: the phase stays Running, startedAt is unchanged.
PodRecreated ==
  ( /\ Ran
    /\ ObservedPhase = PHASE_RUNNING
    /\ last.calls # << >>
    /\ last.calls[1] = Call("read", "pod", PodName, "notfound")
    /\ last.raised = "" )
  => /\ last.calls = << Call("read", "pod", PodName, "notfound"),
                        Call("read", "pod", PodName, "notfound"),
                        Call("create", "pod", PodName, "ok") >>
     /\ \E p \in last.podsAfter :
          /\ p.name = PodName
          /\ Len(p.owners) = 1
          /\ p.owners[1].uid = uid
     /\ Cardinality(Find(last.podsAfter, PodName)) = 1
     /\ DOMAIN last.patch = {"message"}
     /\ Phase = PHASE_RUNNING
     /\ "startedAt" \in DOMAIN status
     /\ status.startedAt = last.status.startedAt

\* The pod vanished after the job started and a later reconcile recreated it.
PodRecreatedWitness ==
  /\ Ran
  /\ ObservedPhase = PHASE_RUNNING
  /\ ~Has(last.pods, PodName)
  /\ Has(last.podsAfter, PodName)
  /\ last.written
  /\ last.now > status.startedAt.wall

\* C6 (abort on API error): an invocation in which a cluster API call was
\* answered by an error other than not-found ends by raising and returns no
\* status patch.
AbortOnApiError ==
  "error" \in Answers => (last.raised # "" /\ last.patch = NoPatch)

\* C7 (at most one delete): the reconciler's deletes of the pod that were
\* answered with success number at most one over the job's life, and so do
\* its deletes of the volume claim.
AtMostOneDelete == podDeletes <= 1 /\ pvcDeletes <= 1

\* C8 (claim kept before expiry): a reconcile that observes a terminal job
\* with a claim TTL above 0 and now - finishedAt below it makes no API call
\* and returns no patch, and the reconciler has deleted no claim so far.
ClaimKeptBeforeExpiry ==
  (ObservedTerminal /\ PvcTTL > 0 /\ Elapsed < PvcTTL)
  => /\ last.calls = << >>
     /\ last.patch = NoPatch
     /\ ~last.written
     /\ pvcDeletes = 0

\* Time has passed since the job finished, the TTL has not, and the claim
\* is still there after the reconcile.
ClaimKeptBeforeExpiryWitness ==
  /\ ObservedTerminal
  /\ PvcTTL > 0
  /\ Elapsed > 0
  /\ Elapsed < PvcTTL
  /\ Has(last.pvcs, PvcName)
  /\ Has(pvcs, PvcName)

\* C9 (claim deleted at expiry): a reconcile that observes a terminal job
\* with a claim TTL above 0 and now - finishedAt at or above it issues one
\* call, the delete of the claim; answered with success (as it is when the
\* claim exists and the API does not fail) it returns a patch with the
\* message as its only key; the claim is deleted at most once, and a
\* reconcile that finds the claim gone makes no successful write and returns
\* no patch.
ClaimDeletedAtExpiry ==
  /\ pvcDeletes <= 1
  /\ (ObservedTerminal /\ PvcTTL > 0 /\ Elapsed >= PvcTTL)
     => /\ Len(last.calls) = 1
        /\ last.calls[1].verb = "delete"
        /\ last.calls[1].kind = "pvc"
        /\ last.calls[1].name = PvcName
        /\ (Has(last.pvcs, PvcName) /\ last.calls[1].res # "error")
             => (last.calls[1].res = "ok" /\ pvcDeletes = 1)
        /\ last.calls[1].res = "ok" => DOMAIN last.patch = {"message"}
        /\ last.calls[1].res # "error" => ~Has(pvcs, PvcName)
        /\ ~Has(last.pvcs, PvcName)
             => ("ok" \notin Answers /\ last.patch = NoPatch)

\* The TTL ran out exactly at this reconcile, which deleted the claim.
ClaimDeletedAtExpiryWitness ==
  /\ ObservedTerminal
  /\ PvcTTL > 0
  /\ Elapsed = PvcTTL
  /\ Has(last.pvcs, PvcName)
  /\ last.calls = << Call("delete", "pvc", PvcName, "ok") >>
  /\ pvcDeletes = 1
  /\ last.written

Answered(verb, kind, res) ==
  \E i \in DOMAIN last.calls :
     /\ last.calls[i].verb = verb
     /\ last.calls[i].kind = kind
     /\ last.calls[i].res = res
Issued(verb, kind) ==
  \E i \in DOMAIN last.calls :
     last.calls[i].verb = verb /\ last.calls[i].kind = kind
\* Every write was applied: no error, no race.
WritesApplied ==
  \A i \in DOMAIN last.calls :
     last.calls[i].verb \in {"create", "patch", "delete"}
       => last.calls[i].res = "ok"
ReadsAnswered ==
  \A i \in DOMAIN last.calls :
     last.calls[i].verb \in {"read", "log"} => last.calls[i].res # "error"

\* C11 (rejection has no effect): a reconcile of a job whose model is neither
\* resnet50 nor mobilenet_v3_small raises ValueError having issued no API
\* call, in whatever phase the job is: pods and claims are as they were, no
\* patch is returned and the status stays as observed.
RejectionHasNoEffect ==
  (Ran /\ Get(last.spec, "model", "resnet50")
            \notin {"resnet50", "mobilenet_v3_small"})
  => /\ last.raised = "ValueError"
     /\ last.calls = << >>
     /\ last.patch = NoPatch
     /\ ~last.written
     /\ last.podsAfter = last.pods
     /\ last.pvcsAfter = last.pvcs
     /\ status = last.status

\* A Running job with its pod and claim was given a model that is not
\* allowed, and the reconcile rejected it.
RejectionHasNoEffectWitness ==
  /\ Ran
  /\ last.raised = "ValueError"
  /\ ObservedPhase = PHASE_RUNNING
  /\ Has(last.pods, PodName)
  /\ Has(last.pvcs, PvcName)

\* C12 (rejection is permanent): once gpujob_handler has rejected the spec
\* (no event is pending), no later reconcile of the unchanged spec runs: the
\* most recent rejection is the handler's, never the timer's.
RejectionHaltsReconcile ==
  (Ran /\ ~pending /\ last.raised = "ValueError") => last.entry = "handler"

\* C13 (validator): a reconcile of a spec whose model is not allowed or whose
\* ttlSecondsAfterFinished or pvcTTLSecondsAfterFinished is negative raises
\* ValueError and creates neither a pod nor a claim.
ValidatorRejectsOutOfRange ==
  ( /\ Ran
    /\ \/ Get(last.spec, "model", "resnet50")
            \notin {"resnet50", "mobilenet_v3_small"}
       \/ Get(last.spec, "ttlSecondsAfterFinished", 0) < 0
       \/ Get(last.spec, "pvcTTLSecondsAfterFinished", 0) < 0 )
  => /\ last.raised = "ValueError"
     /\ ~Issued("create", "pod")
     /\ ~Issued("create", "pvc")

\* C14 (corrected spec): after a rejection, a reconcile of the job with an
\* allowed model is not rejected again on account of the earlier one; when it
\* observes Pending and the API applies its calls, the claim and the pod
\* exist afterwards and it returns the Running patch with startedAt and
\* podName, as for a job that was never rejected.
CorrectedSpecProceeds ==
  ( /\ Ran
    /\ last.rejected
    /\ Get(last.spec, "model", "resnet50")
         \in {"resnet50", "mobilenet_v3_small"} )
  => /\ last.raised # "ValueError"
     /\ (ObservedPhase = PHASE_PENDING /\ WritesApplied /\ ReadsAnswered)
          => /\ last.raised = ""
             /\ Has(last.pvcsAfter, PvcName)
             /\ Has(last.podsAfter, PodName)
             /\ DOMAIN last.patch
                  = {"phase", "startedAt", "podName", "message"}
             /\ last.patch.phase = PHASE_RUNNING
             /\ last.patch.startedAt = IsoZ(last.now)
             /\ last.patch.podName = PodName

\* The handler rejected the spec, the user corrected it, and the handler's
\* next run created the claim and the pod and made the job Running.
CorrectedSpecProceedsWitness ==
  /\ Ran
  /\ last.rejected
  /\ last.entry = "handler"
  /\ ObservedPhase = PHASE_PENDING
  /\ Answered("create", "pvc", "ok")
  /\ Answered("create", "pod", "ok")
  /\ last.written
  /\ Phase = PHASE_RUNNING

\* C15 (Running only when ensured): a reconcile that observes Pending and
\* returns a patch with a phase returns Running with startedAt and podName,
\* and in that invocation the claim was read present or created with
\* success, and so was the pod.
RunningOnlyWhenEnsured ==
  (Ran /\ ObservedPhase = PHASE_PENDING /\ "phase" \in DOMAIN last.patch)
  => /\ last.patch.phase = PHASE_RUNNING
     /\ {"startedAt", "podName"} \subseteq DOMAIN last.patch
     /\ last.patch.podName = PodName
     /\ Answered("read", "pvc", "ok") \/ Answered("create", "pvc", "ok")
     /\ Answered("read", "pod", "ok") \/ Answered("create", "pod", "ok")
     /\ \A i \in DOMAIN last.calls :
          last.calls[i].name \in {PvcName, PodName}

\* The claim was found present, the pod was created, the job left Pending.
RunningOnlyWhenEnsuredWitness ==
  /\ Ran
  /\ ObservedPhase = PHASE_PENDING
  /\ Answered("read", "pvc", "ok")
  /\ Answered("create", "pod", "ok")
  /\ last.written
  /\ Phase = PHASE_RUNNING

\* C16 (idempotent ensure): when a reconcile of a Pending job has completed
\* both ensures with no race on its writes and the cluster is as it left it,
\* a second ensure of the claim issues one call, a read, and so does a second
\* ensure of the pod.
IdempotentEnsure ==
  ( /\ Ran
    /\ ObservedPhase = PHASE_PENDING
    /\ last.raised = ""
    /\ Issued("read", "pod")
    /\ ~Answered("patch", "pvc", "notfound")
    /\ pods = last.podsAfter
    /\ pvcs = last.pvcsAfter )
  => LET w0 == [pods |-> pods, pvcs |-> pvcs, calls |-> << >>, raised |-> ""]
         a == ensure_pvc(w0, PvcName,
                         Get(last.spec, "storageClass", "local-path"),
                         Get(last.spec, "pvcSize", "1Gi"),
                         owner_refs_of(JobName, uid), "ok", "ok")
         b == ensure_pod(w0, PodName, JobName, uid, last.spec, PvcName,
                         "ok", "ok")
     IN /\ a.calls = << Call("read", "pvc", PvcName, "ok") >>
        /\ b.calls = << Call("read", "pod", PodName, "ok") >>

\* C17 (create race): a reconcile in which a create was answered
\* already-exists does not raise and returns its status patch.
CreateRaceTolerated ==
  "conflict" \in Answers => (last.raised = "" /\ last.patch # NoPatch)

\* C18 (delete treats not-found as success): an invocation whose delete was
\* answered not-found does not raise; after the pod delete of the Succeeded
\* or Failed transition it returns the terminal patch with finishedAt and
\* the pod is gone, after the claim delete it ends with the claim gone.
DeleteNotFoundIsSuccess ==
  /\ Answered("delete", "pod", "notfound")
       => /\ last.raised = ""
          /\ last.error = ""
          /\ "phase" \in DOMAIN last.patch
          /\ last.patch.phase \in Terminal
          /\ "finishedAt" \in DOMAIN last.patch
          /\ ~Has(last.podsAfter, PodName)
  /\ Answered("delete", "pvc", "notfound")
       => /\ last.raised = ""
          /\ last.error = ""
          /\ ~Has(last.pvcsAfter, PvcName)

\* The pod vanished under the delete of the Succeeded transition, and the
\* job became Succeeded all the same.
DeleteNotFoundIsSuccessWitness ==
  /\ Answered("delete", "pod", "notfound")
  /\ ObservedPhase = PHASE_RUNNING
  /\ last.written
  /\ Phase = PHASE_SUCCEEDED

\* C19 (unique ownership): once the job (which has a uid) has left Pending,
\* the pod and the claim with the derived names, when present, each carry
\* exactly one owner reference, and it names this job's uid.
UniqueOwnership ==
  (uid # "" /\ Phase # PHASE_PENDING)
  => /\ \A p \in Find(pods, PodName) :
          Len(p.owners) = 1 /\ p.owners[1].uid = uid
     /\ \A c \in Find(pvcs, PvcName) :
          Len(c.owners) = 1 /\ c.owners[1].uid = uid

\* C20 (owner references never overwritten): the reconciler patches the
\* claim only in the ensure of a Pending job, only when the claim it read
\* carries no owner reference and the job's uid is known, and then with the
\* job's owner reference; a claim that carries an owner reference is not
\* patched and keeps the references it has.
OwnersPatchedOnlyIfEmpty ==
  Ran =>
    /\ Issued("patch", "pvc")
         => /\ ObservedPhase = PHASE_PENDING
            /\ uid # ""
            /\ \E c \in Find(last.pvcs, PvcName) : c.owners = << >>
    /\ Answered("patch", "pvc", "ok")
         => \A c \in Find(last.pvcsAfter, PvcName) :
               c.owners = owner_refs_of(JobName, uid)
    /\ \A c \in Find(last.pvcs, PvcName) :
         c.owners # << >>
           => /\ ~Issued("patch", "pvc")
              /\ \A c2 \in Find(last.pvcsAfter, PvcName) :
                   c2.owners = c.owners

\* The claim an earlier job owns was read by the ensure and left as it was.
OwnersPatchedOnlyIfEmptyWitness ==
  /\ Ran
  /\ ObservedPhase = PHASE_PENDING
  /\ Answered("read", "pvc", "ok")
  /\ StalePvc \in last.pvcs
  /\ StalePvc \in last.pvcsAfter
  /\ last.written

\* ------------------------------------------------ ownership, naming
\* C21 (owner reference flags): a pod the reconciler creates carries one
\* owner reference, to the job (its kind, name and uid), with controller and
\* blockOwnerDeletion both true; a claim it creates or patches carries, when
\* the job's uid is known, one owner reference to the job with controller
\* true and blockOwnerDeletion false, and a claim it creates while the uid
\* is not known carries none.
ChildOwnerFlags ==
  Ran =>
    /\ Answered("create", "pod", "ok")
         => \A p \in Find(last.podsAfter, "ephemeralaccelerationjob-j1") :
               /\ Len(p.owners) = 1
               /\ p.owners[1].kind = "EphemeralAccelerationJob"
               /\ p.owners[1].name = JobName
               /\ p.owners[1].uid = uid
               /\ p.owners[1].controller
               /\ p.owners[1].blockOwnerDeletion
    /\ (Answered("create", "pvc", "ok") \/ Answered("patch", "pvc", "ok"))
         => \A c \in Find(last.pvcsAfter, "artifacts-j1") :
               /\ Len(c.owners) = (IF uid = "" THEN 0 ELSE 1)
               /\ \A i \in DOMAIN c.owners :
                    /\ c.owners[i].kind = "EphemeralAccelerationJob"
                    /\ c.owners[i].name = JobName
                    /\ c.owners[i].uid = uid
                    /\ c.owners[i].controller
                    /\ ~c.owners[i].blockOwnerDeletion
    /\ Issued("patch", "pvc") => uid # ""

\* The job's uid is not known: the reconcile created the claim without an
\* owner reference, and the pod with one.
ChildOwnerFlagsWitness ==
  /\ Ran
  /\ uid = ""
  /\ Answered("create", "pvc", "ok")
  /\ Answered("create", "pod", "ok")
  /\ \E c \in last.pvcsAfter : c.owners = << >>
  /\ \E p \in last.podsAfter : Len(p.owners) = 1

\* C22 (deterministic naming): every call of an invocation on a pod names
\* ephemeralaccelerationjob-<jobname> and every call on a claim names
\* artifacts-<jobname> (one namespace is modelled, the job's); a pod the
\* invocation creates has that name and mounts that claim, a claim it
\* creates has that name, and a podName in the patch is the pod's name.
DeterministicNaming ==
  Ran =>
    /\ \A i \in DOMAIN last.calls :
         \/ /\ last.calls[i].kind = "pod"
            /\ last.calls[i].name = "ephemeralaccelerationjob-j1"
         \/ /\ last.calls[i].kind = "pvc"
            /\ last.calls[i].name = "artifacts-j1"
    /\ \A p \in last.podsAfter \ last.pods :
         p.name = "ephemeralaccelerationjob-j1" /\ p.claim = "artifacts-j1"
    /\ \A c \in last.pvcsAfter \ last.pvcs : c.name = "artifacts-j1"
    /\ "podName" \in DOMAIN last.patch
         => last.patch.podName = "ephemeralaccelerationjob-j1"
    /\ "podName" \in DOMAIN status
         => status.podName = "ephemeralaccelerationjob-j1"

\* A Running job whose status carries podName had the log of its failed pod
\* read and the pod deleted, both under the derived name.
DeterministicNamingWitness ==
  /\ Ran
  /\ ObservedPhase = PHASE_RUNNING
  /\ "podName" \in DOMAIN last.status
  /\ Answered("log", "pod", "ok")
  /\ Answered("delete", "pod", "ok")
  /\ Has(last.pvcs, "artifacts-j1")

\* ------------------------------------------------ pod TTL, completion
\* C23 (positive pod TTL retains the pod): with ttlSecondsAfterFinished
\* above 0, the reconcile that observes the job Running and its pod
\* Succeeded issues no pod delete and leaves the pods as they are, and so
\* does every reconcile that observes the job Succeeded, whatever
\* now - finishedAt is.
PodRetained ==
  (Ran /\ Get(last.spec, "ttlSecondsAfterFinished", 0) > 0)
  => /\ ( /\ ObservedPhase = PHASE_RUNNING
          /\ \E p \in Find(last.pods, PodName) : p.phase = "Succeeded" )
        => /\ ~Issued("delete", "pod")
           /\ last.podsAfter = last.pods
           /\ Answered("read", "pod", "ok")
                => /\ "phase" \in DOMAIN last.patch
                   /\ last.patch.phase = PHASE_SUCCEEDED
     /\ ObservedPhase = PHASE_SUCCEEDED
        => /\ ~Issued("delete", "pod")
           /\ last.podsAfter = last.pods

\* The pod TTL has run out since the job succeeded, a reconcile ran, and the
\* succeeded pod is still there.
PodRetainedWitness ==
  /\ Ran
  /\ ObservedPhase = PHASE_SUCCEEDED
  /\ PodTTL > 0
  /\ Elapsed >= PodTTL
  /\ \E p \in Find(pods, PodName) : p.phase = "Succeeded"
  /\ podDeletes = 0

\* C24 (at least one completion attempt): a patch that sets the phase
\* Succeeded (Failed) is returned only by a reconcile that observed the job
\* Running and whose read of the pod with the derived name was answered with
\* a pod in phase Succeeded (Failed); a terminal status carries the podName
\* and startedAt of the Running patch, which is returned only once a pod is
\* in place. The witness shows a job that completed on a second pod.
CompletionObserved ==
  /\ (Ran /\ "phase" \in DOMAIN last.patch /\ last.patch.phase \in Terminal)
     => /\ ObservedPhase = PHASE_RUNNING
        /\ last.calls[1] = Call("read", "pod", "ephemeralaccelerationjob-j1", "ok")
        /\ \E p \in Find(last.pods, "ephemeralaccelerationjob-j1") :
             p.phase = last.patch.phase
  /\ Phase \in Terminal
     => /\ {"podName", "startedAt"} \subseteq DOMAIN status
        /\ status.podName = "ephemeralaccelerationjob-j1"

\* The reconciler had deleted the job's pod in an earlier invocation, the
\* job stayed Running, and it completed on the pod created after that.
CompletionObservedWitness ==
  /\ Ran
  /\ podDeletes > NDeleted(last.calls, "pod")
  /\ Has(last.pods, PodName)
  /\ last.written
  /\ "phase" \in DOMAIN last.patch
  /\ last.patch.phase = PHASE_SUCCEEDED
  /\ Phase = PHASE_SUCCEEDED

\* C25 (convergence): when the timer keeps firing with the API answering,
\* every pod runs to completion and the deletes by users come to an end, a
\* job whose model is allowed reaches Succeeded or Failed and stays there,
\* and the phase a reconcile wrote is the phase of the pod it observed.
Convergence ==
  /\ ModelAllowed(spec) => <>[](Phase \in Terminal)
  /\ [](( /\ last.written
          /\ "phase" \in DOMAIN last.patch
          /\ last.patch.phase \in Terminal )
        => /\ Phase = last.patch.phase
           /\ \E p \in Find(last.pods, PodName) : p.phase = Phase)

\* The timer observed the pod that replaced a deleted one as Failed and made
\* the job Failed.
ConvergenceWitness ==
  /\ Ran
  /\ last.entry = "timer"
  /\ ObservedPhase = PHASE_RUNNING
  /\ Answered("read", "pod", "ok")
  /\ last.written
  /\ Phase = PHASE_FAILED
  /\ pending

\* ------------------------------------------------ the status timestamps
\* C28 (malformed timestamp): a reconcile that observes a terminal job with
\* a claim TTL above 0 and a finishedAt that is no timestamp does not raise,
\* makes no API call (no claim delete), returns no patch and leaves the
\* claim and the status as they are.
MalformedTimestampSkipped ==
  ( /\ ObservedTerminal
    /\ Get(last.spec, "pvcTTLSecondsAfterFinished", 3600) > 0
    /\ "finishedAt" \in DOMAIN last.status
    /\ last.status.finishedAt.zone = "?" )
  => /\ last.raised = ""
     /\ last.error = ""
     /\ last.calls = << >>
     /\ last.patch = NoPatch
     /\ last.pvcsAfter = last.pvcs
     /\ status = last.status

\* The handler met the malformed timestamp after the TTL's time had passed,
\* and the claim is still there.
MalformedTimestampSkippedWitness ==
  /\ ObservedTerminal
  /\ "finishedAt" \in DOMAIN last.status
  /\ last.entry = "handler"
  /\ last.status.finishedAt.zone = "?"
  /\ last.now >= PvcTTL
  /\ Has(pvcs, PvcName)
  /\ ~pending

\* The UTC instant a timestamp denotes: its wall time less its offset
\* (12:00+01:00 is 11:00 UTC); "Z" and +00:00 are UTC.
UtcInstant(ts) ==
  CASE ts.zone = "+00:01" -> ts.wall - 1
    [] ts.zone = "-00:01" -> ts.wall + 1
    [] OTHER -> ts.wall

\* C29 (offset applied once): a reconcile that observes a terminal job with
\* a claim TTL above 0 and a finishedAt with a zone (Z, +hh:mm, -hh:mm)
\* issues the claim delete exactly when UTC-now less the UTC instant of
\* finishedAt is at least the TTL.
OffsetAppliedOnce ==
  ( /\ ObservedTerminal
    /\ Get(last.spec, "pvcTTLSecondsAfterFinished", 3600) > 0
    /\ "finishedAt" \in DOMAIN last.status
    /\ last.status.finishedAt.zone \in {"Z", "+00:00", "+00:01", "-00:01"} )
  => ( Issued("delete", "pvc")
       <=> last.now - UtcInstant(last.status.finishedAt)
             >= Get(last.spec, "pvcTTLSecondsAfterFinished", 3600) )

\* finishedAt is ahead of UTC; the TTL ran out at this reconcile, counted
\* from the UTC instant, and the claim was deleted.
OffsetAppliedOnceWitness ==
  /\ ObservedTerminal
  /\ "finishedAt" \in DOMAIN last.status
  /\ last.status.finishedAt.zone = "+00:01"
  /\ last.now - (last.status.finishedAt.wall - 1) = PvcTTL
  /\ last.calls = << Call("delete", "pvc", PvcName, "ok") >>
  /\ ~Has(pvcs, PvcName)

\* C30 (startedAt <= finishedAt): in every status that has both, startedAt
\* is not later than finishedAt (both are UTC with "Z"); a patch carries
\* startedAt only as the Running patch of a job observed Pending, and
\* finishedAt only as the terminal patch of a job observed Running; a
\* reconcile of a job past Pending, the one that recreates the pod
\* included, leaves startedAt as it was.
StartedBeforeFinished ==
  /\ {"startedAt", "finishedAt"} \subseteq DOMAIN status
       => /\ status.startedAt.zone = "Z"
          /\ status.finishedAt.zone = "Z"
          /\ status.startedAt.wall <= status.finishedAt.wall
  /\ Ran =>
       /\ "startedAt" \in DOMAIN last.patch
            => /\ ObservedPhase = PHASE_PENDING
               /\ last.patch.phase = PHASE_RUNNING
               /\ last.patch.startedAt.wall = last.now
       /\ "finishedAt" \in DOMAIN last.patch
            => /\ ObservedPhase = PHASE_RUNNING
               /\ last.patch.phase \in Terminal
               /\ last.patch.finishedAt.wall = last.now
       /\ ObservedPhase # PHASE_PENDING
            => /\ "startedAt" \in DOMAIN last.status
               /\ "startedAt" \in DOMAIN status
               /\ status.startedAt = last.status.startedAt

\* The job started, time passed, and the terminal patch was written.
StartedBeforeFinishedWitness ==
  /\ Ran
  /\ last.written
  /\ "finishedAt" \in DOMAIN last.patch
  /\ {"startedAt", "finishedAt"} \subseteq DOMAIN status
  /\ status.startedAt.wall < status.finishedAt.wall

\* ------------------------------------------------ messages, errors
\* C31 (bounded log tail): the message of the Failed patch is 'Job failed'
\* when the log read failed or returned nothing; otherwise it is the prefix
\* 'Job failed. Last logs:\n' followed by the last 500 characters of the
\* log, or the whole log when it is shorter, so that the message ends with
\* the log's last characters.
BoundedLogTail ==
  ( /\ Ran
    /\ "phase" \in DOMAIN last.patch
    /\ last.patch.phase = PHASE_FAILED )
  => \A p \in Find(last.pods, PodName) :
       LET msg == last.patch.message
           n == Len(msg) - 1
       IN IF ~Answered("log", "pod", "ok") \/ p.logs = << >>
          THEN msg = <<"Job failed">>
          ELSE /\ msg[1] = "Job failed. Last logs:\n"
               /\ n = (IF Len(p.logs) <= 500 THEN Len(p.logs) ELSE 500)
               /\ \A k \in 1..n :
                    msg[Len(msg) + 1 - k] = p.logs[Len(p.logs) + 1 - k]

\* The log was longer than the tail: the message has the prefix and 500
\* characters, the last of them the log's last, and was written.
BoundedLogTailWitness ==
  /\ Ran
  /\ last.written
  /\ Phase = PHASE_FAILED
  /\ "phase" \in DOMAIN last.patch
  /\ \E p \in Find(last.pods, PodName) : Len(p.logs) > 500
  /\ Len(status.message) = 501
  /\ status.message[501] = "Z"
  /\ status.message[2] = "a"

\* C32 (errors are classified): an invocation that ends by an exception
\* returns no patch and leaves the status as it was; gpujob_handler raises
\* PermanentError for a ValueError and TemporaryError, after which the event
\* stays pending for the retry, for every other exception; gpujob_timer
\* raises nothing, for a ValueError as for the others. An invocation that
\* ends normally raises nothing.
ErrorsClassified ==
  Ran =>
    /\ last.raised = "" => last.error = ""
    /\ last.raised # ""
         => /\ last.patch = NoPatch
            /\ ~last.written
            /\ status = last.status
            /\ last.entry = "handler"
                 => /\ last.error = (IF last.raised = "ValueError"
                                     THEN "PermanentError"
                                     ELSE "TemporaryError")
                    /\ last.error = "TemporaryError" => pending
            /\ last.entry = "timer" => last.error = ""

\* The timer ran the reconciler on a spec that the handler had rejected,
\* and swallowed the validation error.
ErrorsClassifiedWitness ==
  /\ Ran
  /\ last.entry = "timer"
  /\ last.raised = "ValueError"
  /\ last.error = ""
  /\ ~pending

\* C33 as stated (the timer is the only path to the claim TTL): the timer
\* can run the reconciler in every state, and every reconcile that observes
\* the job terminal, which is where the claim TTL is evaluated, is the
\* timer's.
TimerIsOnlyTtlPath ==
  /\ ENABLED gpujob_timer
  /\ (ObservedTerminal /\ last.entry \in {"handler", "timer"})
     => last.entry = "timer"

\* C33 (amended): the timer can run the reconciler in every state, whatever
\* the phase; a reconcile that observes the job terminal, the timer's or
\* the handler's, evaluates the claim TTL: it issues the delete of the claim
\* when the TTL is 0 or has run out and no call otherwise.
TimerReconcilesEveryPhase ==
  /\ ENABLED gpujob_timer
  /\ (ObservedTerminal /\ last.entry \in {"handler", "timer"})
     => ( Issued("delete", "pvc")
          <=> \/ PvcTTL = 0
              \/ PvcTTL > 0 /\ Elapsed >= PvcTTL )

\* A timer tick on a terminal job found the claim TTL run out and deleted
\* the claim.
TimerReconcilesEveryPhaseWitness ==
  /\ ObservedTerminal
  /\ last.entry = "timer"
  /\ PvcTTL > 0
  /\ Elapsed >= PvcTTL
  /\ Answered("delete", "pvc", "ok")
  /\ ~pending

\* C34 (delete is a no-op): handling the delete notification of the job
\* issues no API call, returns no patch, and leaves pods, claims and status
\* as they were: the pod and the claim that existed still exist.
DeleteIsNoOp ==
  last.entry = "delete"
  => /\ last.calls = << >>
     /\ last.patch = NoPatch
     /\ ~last.written
     /\ last.podsAfter = last.pods
     /\ last.pvcsAfter = last.pvcs
     /\ status = last.status
     /\ pvcs = last.pvcs
     /\ Has(pods, PodName) <=> Has(last.pods, PodName)

\* A Running job with its pod and its claim was deleted; both are still
\* there.
DeleteIsNoOpWitness ==
  /\ last.entry = "delete"
  /\ Phase = PHASE_RUNNING
  /\ Has(pods, PodName)
  /\ Has(pvcs, PvcName)


\* C35: when two reconciles of the same Pending job interleave call by call,
\* there is never more than one claim and one pod, each under the name
\* derived from the job, and an invocation whose create was answered
\* "already exists" has raised and has returned no status patch.
InterleavedCreateOnce ==
  /\ Cardinality(pods) <= 1
  /\ Cardinality(pvcs) <= 1
  /\ \A p \in pods : p.name = PodName
  /\ \A c \in pvcs : c.name = PvcName
  /\ \A e \in Entries :
       inflight[e].conflict =>
         /\ inflight[e].pc = "done"
         /\ inflight[e].raised # ""
         /\ inflight[e].patch = NoPatch

\* One invocation was answered 409 on the pod the other one had created
\* and was then Running on.
InterleavedCreateOnceWitness ==
  /\ inflight["handler"].conflict
  /\ inflight["timer"].patch # NoPatch
  /\ Phase = PHASE_RUNNING
  /\ Has(pods, PodName)
  /\ Has(pvcs, PvcName)


\* ------------------------------------------------ order of the calls
\* C36 (claim before pod): in a reconcile that observes Pending, every call
\* on the pod comes after a read of the claim answered with the claim or a
\* create of the claim answered with success, in that invocation; when the
\* ensure of the claim raises (its read failed, or its create failed or was
\* answered already-exists), the invocation issues no call on the pod,
\* raises and returns no patch.
ClaimBeforePod ==
  (Ran /\ ObservedPhase = PHASE_PENDING)
  => /\ \A i \in DOMAIN last.calls :
          last.calls[i].kind = "pod"
            => \E j \in 1..(i - 1) :
                  /\ last.calls[j].kind = "pvc"
                  /\ last.calls[j].verb \in {"read", "create"}
                  /\ last.calls[j].res = "ok"
     /\ ( \/ Answered("read", "pvc", "error")
          \/ Answered("create", "pvc", "error")
          \/ Answered("create", "pvc", "conflict") )
        => /\ ~Issued("read", "pod")
           /\ ~Issued("create", "pod")
           /\ last.raised # ""
           /\ last.patch = NoPatch
           /\ last.podsAfter = last.pods
           /\ status = last.status

\* The create of the claim failed under the handler: no pod was looked for,
\* the job is still Pending and the handler will be retried.
ClaimBeforePodWitness ==
  /\ Ran
  /\ ObservedPhase = PHASE_PENDING
  /\ Answered("create", "pvc", "error")
  /\ ~Issued("read", "pod")
  /\ last.error = "TemporaryError"
  /\ ~Has(pods, PodName)
  /\ Phase = PHASE_PENDING


\* C37 (terminal reconcile leaves the pod and the lifecycle fields alone): a
\* reconcile that observes the job Succeeded or Failed issues no call on a
\* pod and leaves the pods as they are; a patch it returns has the message
\* as its only key, and phase, startedAt, finishedAt, podName and
\* artifactPath of the status are afterwards what they were.
TerminalLeavesPodAndFields ==
  ObservedTerminal
  => /\ \A i \in DOMAIN last.calls : last.calls[i].kind # "pod"
     /\ last.podsAfter = last.pods
     /\ DOMAIN last.patch \subseteq {"message"}
     /\ \A k \in {"phase", "startedAt", "finishedAt", "podName",
                  "artifactPath"} :
          /\ (k \in DOMAIN status) <=> (k \in DOMAIN last.status)
          /\ k \in DOMAIN status => status[k] = last.status[k]

\* The claim of a Succeeded job was deleted and the message written, with
\* the retained pod still there and the artifact path still in the status.
TerminalLeavesPodAndFieldsWitness ==
  /\ ObservedTerminal
  /\ last.calls = << Call("delete", "pvc", PvcName, "ok") >>
  /\ last.written
  /\ Has(pods, PodName)
  /\ "artifactPath" \in DOMAIN status
  /\ status.message # last.status.message


\* C38 (Running reconcile leaves the claim alone): a reconcile that observes
\* the job Running issues no call on a claim and leaves the claims as they
\* are, so that a claim deleted meanwhile is not put back; the pod it
\* creates in place of a lost one mounts the claim of the derived name
\* whether or not that claim exists.
RunningLeavesClaim ==
  (Ran /\ ObservedPhase = PHASE_RUNNING)
  => /\ \A i \in DOMAIN last.calls : last.calls[i].kind # "pvc"
     /\ last.pvcsAfter = last.pvcs
     /\ \A p \in last.podsAfter \ last.pods : p.claim = PvcName

\* The pod and the claim of a Running job were deleted; the reconcile
\* created the pod again, which mounts a claim that is not there.
RunningLeavesClaimWitness ==
  /\ Ran
  /\ ObservedPhase = PHASE_RUNNING
  /\ ~Has(last.pvcs, PvcName)
  /\ Answered("create", "pod", "ok")
  /\ \E p \in pods : p.name = PodName /\ p.claim = PvcName
  /\ ~Has(pvcs, PvcName)


\* C39 (no finishedAt, no expiry): a reconcile that observes a terminal job
\* with a claim TTL above 0 and a status without finishedAt makes no API
\* call and returns no patch, however much time has passed: the claim is as
\* it was and the reconciler has deleted no claim.
NoTimestampNoExpiry ==
  ( /\ ObservedTerminal
    /\ Get(last.spec, "pvcTTLSecondsAfterFinished", 3600) > 0
    /\ "finishedAt" \notin DOMAIN last.status )
  => /\ last.calls = << >>
     /\ last.patch = NoPatch
     /\ last.raised = ""
     /\ ~last.written
     /\ last.pvcsAfter = last.pvcs
     /\ status = last.status
     /\ pvcDeletes = 0

\* The timer reconciled the job without finishedAt when the TTL's time had
\* passed on the clock, and the claim is still there.
NoTimestampNoExpiryWitness ==
  /\ ObservedTerminal
  /\ last.entry = "timer"
  /\ "finishedAt" \notin DOMAIN last.status
  /\ PvcTTL > 0
  /\ last.now >= PvcTTL
  /\ Has(pvcs, PvcName)


\* C40 (timestamp round trip): the finishedAt a reconcile writes is the UTC
\* time of that reconcile followed by "Z", and the terminal branch parses
\* it, without an error, to that same time; a reconcile of a terminal job
\* leaves finishedAt as it is, so that with a clock that does not go back
\* the elapsed time it computes is the time since the reconcile that made
\* the job terminal, and is never negative.
TimestampRoundTrip ==
  /\ (Ran /\ "finishedAt" \in DOMAIN last.patch)
       => /\ last.patch.finishedAt.zone = "Z"
          /\ Parsable(last.patch.finishedAt)
          /\ FinishedTime(last.patch.finishedAt) = last.now
  /\ "finishedAt" \in DOMAIN status
       => /\ Parsable(status.finishedAt)
          /\ now - FinishedTime(status.finishedAt) \in 0..MaxTime
  /\ (ObservedTerminal /\ "finishedAt" \in DOMAIN last.status)
       => /\ status.finishedAt = last.status.finishedAt
          /\ Parsable(last.status.finishedAt)
          /\ last.now - FinishedTime(last.status.finishedAt) >= 0
          /\ last.raised = ""

\* The job became Failed at time 0; the handler reconciled it one unit
\* later and computed an elapsed time of one unit from the stored text.
TimestampRoundTripWitness ==
  /\ ObservedTerminal
  /\ last.entry = "handler"
  /\ ObservedPhase = PHASE_FAILED
  /\ last.status.finishedAt = IsoZ(0)
  /\ last.now - FinishedTime(last.status.finishedAt) = 1

====
